---- MODULE Spec2Model ----
(***************************************************************************)
(* Model of game-api/app.py: the 5-letter anagram index, the (topic, word) *)
(* picker with its bounded retries and local fallback, and the in-memory   *)
(* session store behind /api/game/new, /api/game/guess and /api/game/state.*)
(*                                                                         *)
(* A Python str is a sequence of one-character strings, so that sorted(),  *)
(* lower(), strip() and isalpha() are computed and not assumed.            *)
(* Functions that draw at random (random.choice, random.shuffle, uuid4) or *)
(* that depend on the collaborator are operators giving the set of their   *)
(* possible results.                                                       *)
(***************************************************************************)
EXTENDS Integers, Sequences, FiniteSets, TLC

VARIABLES
    DISABLE_LLM,      \* os.getenv("DISABLE_LLM") == "1", fixed for the process
    FIVE_WORDS,       \* module global: the qualifying 5-letter words
    ANAGRAM5_INDEX,   \* module global: signature -> sorted list of words
    SESSIONS,         \* module global: session id -> GameState
    request,          \* the request handled last
    response,         \* the HTTP response to it
    picked,           \* what the picker did while serving the last new_game
    threads           \* the guess requests being served step by step

vars == <<DISABLE_LLM, FIVE_WORDS, ANAGRAM5_INDEX, SESSIONS, request, response,
          picked, threads>>

\* ---------------------------------------------------------------- bounds
\* sessions the store may hold
MaxSessions == 2
\* outcomes of random.shuffle that are drawn (the first rotations of the list)
MaxShuffle == 2
\* entries of TOPICS that random.choice draws (the first ones)
MaxTopics == 2
\* guess requests served at the same time
MaxThreads == 2

\* ------------------------------------------------------------- constants
SEED_LEN == 5
\* MIN_ZIPF = 3.4, in tenths
MIN_ZIPF == 34
\* for _ in range(3)
LLM_ATTEMPTS == 3

\* ------------------------------------------------------- Python strings
\* the characters in use, in code point order
CodePoints == <<" ", "'", "A", "E", "R", "S", "T",
                "a", "e", "g", "i", "r", "s", "t">>

Range(s) == {s[i] : i \in DOMAIN s}

OrdTable ==
    [c \in Range(CodePoints) |-> CHOOSE i \in 1..Len(CodePoints) : CodePoints[i] = c]

\* ord(c), up to the order
Ord(c) == OrdTable[c]

UpperCase == {"A", "E", "R", "S", "T"}
LowerCase == {"a", "e", "g", "i", "r", "s", "t"}
WhiteSpace == {" "}

LowerChar(c) ==
    CASE c = "A" -> "a"
      [] c = "E" -> "e"
      [] c = "R" -> "r"
      [] c = "S" -> "s"
      [] c = "T" -> "t"
      [] OTHER -> c

\* str.lower()
lower(s) == [i \in 1..Len(s) |-> LowerChar(s[i])]

\* str.isalpha(): non-empty and letters only
isalpha(s) == Len(s) > 0 /\ \A i \in 1..Len(s) : s[i] \in UpperCase \cup LowerCase

RECURSIVE lstrip(_)
lstrip(s) ==
    IF s # <<>> /\ Head(s) \in WhiteSpace THEN lstrip(Tail(s)) ELSE s

RECURSIVE rstrip(_)
rstrip(s) ==
    IF s # <<>> /\ s[Len(s)] \in WhiteSpace
    THEN rstrip(SubSeq(s, 1, Len(s) - 1))
    ELSE s

\* str.strip()
strip(s) == rstrip(lstrip(s))

RECURSIVE InsertChar(_, _)
InsertChar(c, s) ==
    IF s = <<>> THEN <<c>>
    ELSE IF Ord(c) <= Ord(Head(s)) THEN <<c>> \o s
    ELSE <<Head(s)>> \o InsertChar(c, Tail(s))

\* sorted(w) of a str: its characters in ascending code point order
RECURSIVE sorted(_)
sorted(s) ==
    IF s = <<>> THEN <<>> ELSE InsertChar(Head(s), sorted(Tail(s)))

\* a < b on str
RECURSIVE StrLess(_, _)
StrLess(a, b) ==
    IF a = <<>> THEN b # <<>>
    ELSE IF b = <<>> THEN FALSE
    ELSE IF Head(a) = Head(b) THEN StrLess(Tail(a), Tail(b))
    ELSE Ord(Head(a)) < Ord(Head(b))

\* sorted(list(set(ws))) of a list of str
RECURSIVE SortedSet(_)
SortedSet(S) ==
    IF S = {} THEN <<>>
    ELSE LET m == CHOOSE x \in S : \A y \in S \ {x} : StrLess(x, y)
         IN  <<m>> \o SortedSet(S \ {m})

\* "".join(sorted(w))
signature(w) == sorted(w)

\* ------------------------------------------------------------- the words
rates == <<"r", "a", "t", "e", "s">>
Rates == <<"R", "a", "t", "e", "s">>
aster == <<"a", "s", "t", "e", "r">>
Aster == <<"A", "s", "t", "e", "r">>
stare == <<"s", "t", "a", "r", "e">>
resat == <<"r", "e", "s", "a", "t">>
tiger == <<"t", "i", "g", "e", "r">>
tea   == <<"t", "e", "a">>
isnt  == <<"i", "s", "'", "s", "t">>

\* wordfreq's ranked list for "en", most frequent first
RankedWords == <<rates, isnt, Rates, tea, aster, resat, stare, tiger>>

\* zipf_frequency(w, "en"), in tenths
zipf_frequency(w) ==
    CASE w = rates -> 46
      [] w = aster -> 35
      [] w = stare -> 40
      [] w = tiger -> 44
      [] w = resat -> 20
      [] w = tea   -> 50
      [] w = isnt  -> 52
      [] OTHER -> 0

\* top_n_list("en", n)
top_n_list(n) ==
    SubSeq(RankedWords, 1, IF n < Len(RankedWords) THEN n ELSE Len(RankedWords))

\* the values of LIMIT_VOCAB the process is started with
VocabLimits == {0, 6}

\* ---------------------------------------------------- the anagram index
\* lines 29-30 left out: the buckets keep the order and the repeats of the list
build_five_index_Raw(limit_vocab, min_zipf) ==
    LET top   == top_n_list(limit_vocab)
        alpha == SelectSeq(top, isalpha)
        words == [i \in 1..Len(alpha) |-> lower(alpha[i])]
        Keep(w) == Len(w) = SEED_LEN /\ zipf_frequency(w) >= min_zipf
        five  == SelectSeq(words, Keep)
        keys  == {signature(w) : w \in Range(five)}
        Bucket(k) == LET In(w) == signature(w) = k IN SelectSeq(five, In)
        idx   == [k \in keys |-> Bucket(k)]
    IN  [five |-> five, idx |-> idx]

build_five_index(limit_vocab, min_zipf) ==
    LET top   == top_n_list(limit_vocab)
        alpha == SelectSeq(top, isalpha)
        words == [i \in 1..Len(alpha) |-> lower(alpha[i])]
        Keep(w) == Len(w) = SEED_LEN /\ zipf_frequency(w) >= min_zipf
        five  == SelectSeq(words, Keep)
        keys  == {signature(w) : w \in Range(five)}
        Bucket(k) == LET In(w) == signature(w) = k IN SelectSeq(five, In)
        idx   == [k \in keys |-> SortedSet(Range(Bucket(k)))]
    IN  [five |-> five, idx |-> idx]

\* ANAGRAM5_INDEX.get(letters_sorted, FIVE_WORDS): every word as the default
five_letter_anagrams_DefaultAll(letters_sorted) ==
    IF letters_sorted \in DOMAIN ANAGRAM5_INDEX
    THEN ANAGRAM5_INDEX[letters_sorted]
    ELSE FIVE_WORDS

\* ANAGRAM5_INDEX.get(letters_sorted, [])
five_letter_anagrams(letters_sorted) ==
    IF letters_sorted \in DOMAIN ANAGRAM5_INDEX
    THEN ANAGRAM5_INDEX[letters_sorted]
    ELSE <<>>

Rotate(arr, k) == [i \in 1..Len(arr) |-> arr[((i - 1 + k) % Len(arr)) + 1]]

\* random.choices in place of random.shuffle: letters drawn with replacement
scramble_Choices(letters_sorted) ==
    {[i \in 1..Len(letters_sorted) |->
         letters_sorted[(((i - 1) * k) % Len(letters_sorted)) + 1]]
     : k \in 0..(MaxShuffle - 1)}

\* the results random.shuffle may leave: MaxShuffle of the permutations
scramble(letters_sorted) ==
    {Rotate(letters_sorted, k) : k \in 0..(MaxShuffle - 1)}

\* ------------------------------------------------------------ the picker
TOPICS == <<"animals", "music", "space", "sports", "food">>

\* _fallback_topic_word() with a default word of another length
_fallback_topic_word_Short ==
    {[topic |-> t, word |-> w] :
        t \in {TOPICS[i] : i \in 1..(IF MaxTopics < Len(TOPICS) THEN MaxTopics ELSE Len(TOPICS))},
        w \in IF FIVE_WORDS # <<>> THEN Range(FIVE_WORDS) ELSE {tea}}

\* _fallback_topic_word(): random.choice of a topic and of a word
_fallback_topic_word ==
    {[topic |-> t, word |-> w] :
        t \in {TOPICS[i] : i \in 1..(IF MaxTopics < Len(TOPICS) THEN MaxTopics ELSE Len(TOPICS))},
        w \in IF FIVE_WORDS # <<>> THEN Range(FIVE_WORDS) ELSE {tiger}}

\* What the collaborator may answer to one request: the call or the parsing
\* raises (API error, timeout, no JSON object in the text, a missing key), or the
\* text holds a JSON object with topic and word.
LLMReplies ==
    { [kind |-> "raise", topic |-> "", word |-> <<>>],
      [kind |-> "json",  topic |-> "nature", word |-> Aster],
      [kind |-> "json",  topic |-> "nature", word |-> stare],
      [kind |-> "json",  topic |-> "nature", word |-> tiger],
      [kind |-> "json",  topic |-> "nature", word |-> tea] }

\* the check of line 84 without the length
Validates_NoLength(word) ==
    isalpha(word) /\ zipf_frequency(word) >= MIN_ZIPF

\* the check of a parsed word, line 84
Validates(word) ==
    isalpha(word) /\ Len(word) = SEED_LEN /\ zipf_frequency(word) >= MIN_ZIPF

Pick(topic, word, replies) ==
    [topic |-> topic, word |-> word, replies |-> replies]

\* the retry loop with one attempt too many
RECURSIVE Attempt_OneMore(_, _)
Attempt_OneMore(i, replies) ==
    IF i > LLM_ATTEMPTS + 1
    THEN {Pick(f.topic, f.word, replies) : f \in _fallback_topic_word}
    ELSE UNION { LET word == lower(strip(r.word))
                     seen == Append(replies, r)
                 IN  IF r.kind = "json" /\ Validates(word)
                     THEN {Pick(r.topic, word, seen)}
                     ELSE Attempt_OneMore(i + 1, seen)
                 : r \in LLMReplies }

\* the retry loop from attempt i on, after the collaborator has given `replies`
RECURSIVE Attempt(_, _)
Attempt(i, replies) ==
    IF i > LLM_ATTEMPTS
    THEN {Pick(f.topic, f.word, replies) : f \in _fallback_topic_word}
    ELSE UNION { LET word == lower(strip(r.word))
                     seen == Append(replies, r)
                 IN  IF r.kind = "json" /\ Validates(word)
                     THEN {Pick(r.topic, word, seen)}
                     ELSE Attempt(i + 1, seen)
                 : r \in LLMReplies }

\* ask_tinyllama_topic_and_word(): the possible (topic, word), each with the
\* replies the collaborator gave to the requests made
ask_tinyllama_topic_and_word ==
    IF DISABLE_LLM \/ FIVE_WORDS = <<>>
    THEN {Pick(f.topic, f.word, <<>>) : f \in _fallback_topic_word}
    ELSE Attempt(1, <<>>)

\* ----------------------------------------------------------- the sessions
\* uuid4().hex: opaque tokens, taken to be distinct from the stored ones
UUIDS == <<"u1", "u2", "u3", "u4">>
SessionIds == {UUIDS[i] : i \in 1..MaxSessions}

\* a request without the field (data.get gives None)
None == "None"
\* the identifiers a request may carry that name no session
BadSids == {"nonexistent", "", None}
\* the raw guesses a request may carry
RATES_ == <<"R", "A", "T", "E", "S", " ">>
GuessInputs == {rates, RATES_, aster, stare, tiger, tea}
\* the bodies of the guess requests: every guess for a session identifier, and
\* one guess with each identifier that names no session
GuessRequests ==
    {[session_id |-> sid, guess |-> raw] : sid \in SessionIds, raw \in GuessInputs}
    \cup {[session_id |-> sid, guess |-> rates] : sid \in BadSids}

GameState(topic, letters, scrambled, targets) ==
    [topic |-> topic, letters |-> letters, scrambled |-> scrambled,
     targets |-> targets, found |-> <<>>]

NoPick == [replies |-> <<>>, topic |-> "", word |-> <<>>, seed |-> <<>>]
NoRequest == [op |-> "none", session_id |-> None, guess |-> <<>>]
\* a thread of the request-serving layer that serves no request
Idle == [pc |-> "idle", session_id |-> None, guess |-> <<>>, ok |-> FALSE,
         seen |-> <<>>]
Threads == 1..MaxThreads

Init ==
    /\ DISABLE_LLM \in BOOLEAN
    /\ \E limit_vocab \in VocabLimits :
          LET built == build_five_index(limit_vocab, MIN_ZIPF)
          IN  /\ FIVE_WORDS = built.five
              /\ ANAGRAM5_INDEX = built.idx
    /\ SESSIONS = [s \in {} |-> {}]
    /\ request = NoRequest
    /\ response = [status |-> 0, body |-> [status |-> "ok"]]
    /\ picked = NoPick
    /\ threads = [t \in Threads |-> Idle]

\* SESSIONS = {sid: gs}: the mapping rebound in place of the item assignment
store_session_Rebind(sid, gs) ==
    [s \in {sid} |-> gs]

\* SESSIONS[sid] = gs, line 288
store_session(sid, gs) ==
    [s \in DOMAIN SESSIONS \cup {sid} |-> IF s = sid THEN gs ELSE SESSIONS[s]]

\* the body of the response of new_game, lines 290-296
new_game_body(sid, gs) ==
    [session_id |-> sid,
     topic |-> gs.topic,
     scrambled |-> gs.scrambled,
     letters |-> gs.letters,
     answer_count |-> Len(gs.targets)]

\* POST /api/game/new
new_game ==
    /\ Cardinality(DOMAIN SESSIONS) < MaxSessions
    /\ \E p1 \in ask_tinyllama_topic_and_word :
       \E p2 \in (IF Len(p1.word) # SEED_LEN
                  THEN _fallback_topic_word
                  ELSE {[topic |-> p1.topic, word |-> p1.word]}) :
       \E p3 \in (IF five_letter_anagrams(sorted(p2.word)) = <<>>
                  THEN _fallback_topic_word
                  ELSE {p2}) :
          LET letters == sorted(p3.word)
              targets == five_letter_anagrams(letters)
          IN  \E scram \in scramble(letters) :
              \E sid \in SessionIds \ DOMAIN SESSIONS :
                 LET gs == GameState(p3.topic, letters, scram, targets)
                 IN  /\ SESSIONS' = store_session(sid, gs)
                     /\ request' = [op |-> "new_game", session_id |-> None,
                                    guess |-> <<>>]
                     /\ response' = [status |-> 200, body |-> new_game_body(sid, gs)]
                     /\ picked' = [replies |-> p1.replies,
                                   topic |-> p1.topic,
                                   word |-> p1.word,
                                   seed |-> p3.word]
    /\ UNCHANGED <<DISABLE_LLM, FIVE_WORDS, ANAGRAM5_INDEX, threads>>

\* line 302 without the strip
guess_text_NoStrip(raw) == lower(raw)

\* str(data.get("guess", "")).lower().strip(), line 302
guess_text(raw) == strip(lower(raw))

\* the test of line 307
IsCorrect(g, gs) ==
    /\ Len(g) = SEED_LEN
    /\ g \in Range(gs.targets)
    /\ signature(g) = gs.letters

\* lines 308-309 with the test dropped from the condition
AfterGuess_Unchecked(g, gs) ==
    IF g \notin Range(gs.found)
    THEN [gs EXCEPT !.found = Append(gs.found, g)]
    ELSE gs

\* lines 308-309 without the membership test
AfterGuess_NoDedup(g, gs) ==
    IF IsCorrect(g, gs)
    THEN [gs EXCEPT !.found = Append(gs.found, g)]
    ELSE gs

\* lines 308-309 with the found word also taken out of the targets
AfterGuess_PopTarget(g, gs) ==
    IF IsCorrect(g, gs) /\ g \notin Range(gs.found)
    THEN LET Other(w) == w # g
         IN  [gs EXCEPT !.found = Append(gs.found, g),
                        !.targets = SelectSeq(gs.targets, Other)]
    ELSE gs

\* lines 308-309 with gs.found.insert(0, g) for the append
AfterGuess_Prepend(g, gs) ==
    IF IsCorrect(g, gs) /\ g \notin Range(gs.found)
    THEN [gs EXCEPT !.found = <<g>> \o gs.found]
    ELSE gs

\* lines 308-309
AfterGuess(g, gs) ==
    IF IsCorrect(g, gs) /\ g \notin Range(gs.found)
    THEN [gs EXCEPT !.found = Append(gs.found, g)]
    ELSE gs

\* lines 311-316 with complete tied to the guess being correct
guess_body_CompleteIfCorrect(ok, gs) ==
    [correct |-> ok,
     found |-> gs.found,
     remaining |-> Len(gs.targets) - Len(gs.found),
     complete |-> ok /\ Len(gs.found) = Len(gs.targets)]

\* the body of the response of guess, lines 311-316
guess_body(ok, gs) ==
    [correct |-> ok,
     found |-> gs.found,
     remaining |-> Len(gs.targets) - Len(gs.found),
     complete |-> Len(gs.found) = Len(gs.targets)]

\* the error response with another status
error_NotFound == [status |-> 404, body |-> [error |-> "invalid session"]]

\* lines 304 and 322
error_invalid_session == [status |-> 400, body |-> [error |-> "invalid session"]]

\* POST /api/game/guess
guess ==
    /\ \E data \in GuessRequests :
          LET sid == data.session_id
              raw == data.guess
              g == guess_text(raw)
          IN  /\ request' = [op |-> "guess", session_id |-> sid, guess |-> raw]
              /\ IF sid \in {None, ""} \/ sid \notin DOMAIN SESSIONS
                 THEN /\ response' = error_invalid_session
                      /\ UNCHANGED SESSIONS
                 ELSE LET ok == IsCorrect(g, SESSIONS[sid])
                          gs == AfterGuess(g, SESSIONS[sid])
                      IN  /\ SESSIONS' = [SESSIONS EXCEPT ![sid] = gs]
                          /\ response' = [status |-> 200, body |-> guess_body(ok, gs)]
    /\ picked' = NoPick
    /\ UNCHANGED <<DISABLE_LLM, FIVE_WORDS, ANAGRAM5_INDEX, threads>>

\* lines 324-330 with the count of the words left in place of the total
state_body_Remaining(gs) ==
    [topic |-> gs.topic,
     scrambled |-> gs.scrambled,
     letters |-> gs.letters,
     found |-> gs.found,
     total |-> Len(gs.targets) - Len(gs.found)]

\* the body of the response of state, lines 324-330
state_body(gs) ==
    [topic |-> gs.topic,
     scrambled |-> gs.scrambled,
     letters |-> gs.letters,
     found |-> gs.found,
     total |-> Len(gs.targets)]

\* GET /api/game/state
state ==
    /\ \E sid \in SessionIds \cup {"nonexistent", ""} :
          /\ request' = [op |-> "state", session_id |-> sid, guess |-> <<>>]
          /\ IF sid \notin DOMAIN SESSIONS
             THEN response' = error_invalid_session
             ELSE response' = [status |-> 200, body |-> state_body(SESSIONS[sid])]
    /\ picked' = NoPick
    /\ UNCHANGED <<DISABLE_LLM, FIVE_WORDS, ANAGRAM5_INDEX, SESSIONS, threads>>

Next == new_game \/ guess \/ state

Spec == Init /\ [][Next]_vars

\* ------------------------------------------- the index of any word source
\* the process started with any LIMIT_VOCAB the ranked list can serve
InitIndex ==
    /\ DISABLE_LLM \in BOOLEAN
    /\ \E limit_vocab \in 0..Len(RankedWords) :
          LET built == build_five_index(limit_vocab, MIN_ZIPF)
          IN  /\ FIVE_WORDS = built.five
              /\ ANAGRAM5_INDEX = built.idx
    /\ SESSIONS = [s \in {} |-> {}]
    /\ request = NoRequest
    /\ response = [status |-> 0, body |-> [status |-> "ok"]]
    /\ picked = NoPick
    /\ threads = [t \in Threads |-> Idle]

NextIndex == new_game \/ state

SpecIndex == InitIndex /\ [][NextIndex]_vars

\* --------------------------- guess requests served by threads, step by step
\* the requests the threads receive for the one session there is
ThreadRequests ==
    {[session_id |-> sid, guess |-> g] : sid \in {UUIDS[1]}, g \in GuessInputs}
        \cup {[session_id |-> "nonexistent", guess |-> rates]}

\* the process after one new_game served with the collaborator disabled
InitThreads ==
    /\ DISABLE_LLM = TRUE
    /\ \E limit_vocab \in VocabLimits :
          LET built == build_five_index(limit_vocab, MIN_ZIPF)
          IN  /\ FIVE_WORDS = built.five
              /\ ANAGRAM5_INDEX = built.idx
    /\ \E p \in _fallback_topic_word :
          LET letters == sorted(p.word)
              targets == five_letter_anagrams(letters)
          IN  \E scram \in scramble(letters) :
                 LET gs == GameState(p.topic, letters, scram, targets)
                 IN  /\ SESSIONS = [s \in {UUIDS[1]} |-> gs]
                     /\ response = [status |-> 200,
                                    body |-> new_game_body(UUIDS[1], gs)]
                     /\ picked = [replies |-> <<>>, topic |-> p.topic,
                                  word |-> p.word, seed |-> p.word]
    /\ request = [op |-> "new_game", session_id |-> None, guess |-> <<>>]
    /\ threads = [t \in Threads |-> Idle]

\* lines 300-305: the request is read and its session looked up
guess_receive ==
    /\ \E t \in Threads, data \in ThreadRequests :
          /\ threads[t].pc = "idle"
          /\ IF data.session_id \in {None, ""} \/ data.session_id \notin DOMAIN SESSIONS
             THEN /\ request' = [op |-> "guess", session_id |-> data.session_id,
                                 guess |-> data.guess]
                  /\ response' = error_invalid_session
                  /\ UNCHANGED threads
             ELSE /\ threads' = [threads EXCEPT ![t] =
                                    [pc |-> "test", session_id |-> data.session_id,
                                     guess |-> data.guess, ok |-> FALSE,
                                     seen |-> <<>>]]
                  /\ UNCHANGED <<request, response>>
    /\ UNCHANGED <<DISABLE_LLM, FIVE_WORDS, ANAGRAM5_INDEX, SESSIONS, picked>>

\* line 307 and the condition of line 308, read from the shared session
guess_test ==
    /\ \E t \in Threads :
          /\ threads[t].pc = "test"
          /\ LET gs == SESSIONS[threads[t].session_id]
                 g  == guess_text(threads[t].guess)
                 ok == IsCorrect(g, gs)
             IN  threads' = [threads EXCEPT ![t].ok = ok,
                                            ![t].seen = gs.found,
                                            ![t].pc = IF ok /\ g \notin Range(gs.found)
                                                      THEN "append"
                                                      ELSE "respond"]
    /\ UNCHANGED <<DISABLE_LLM, FIVE_WORDS, ANAGRAM5_INDEX, SESSIONS, request,
                   response, picked>>

\* gs.found = seen + [g]: the list as the thread read it, written back
append_found_WriteBack(gs, g, seen) ==
    [gs EXCEPT !.found = Append(seen, g)]

\* gs.found.append(g), line 309: the shared list is extended in place
append_found(gs, g, seen) ==
    [gs EXCEPT !.found = Append(gs.found, g)]

\* line 309
guess_append ==
    /\ \E t \in Threads :
          /\ threads[t].pc = "append"
          /\ LET sid == threads[t].session_id
                 g   == guess_text(threads[t].guess)
             IN  SESSIONS' = [SESSIONS EXCEPT ![sid] =
                                 append_found(SESSIONS[sid], g, threads[t].seen)]
          /\ threads' = [threads EXCEPT ![t].pc = "respond"]
    /\ UNCHANGED <<DISABLE_LLM, FIVE_WORDS, ANAGRAM5_INDEX, request, response, picked>>

\* lines 311-316: the response is built from the shared session
guess_respond ==
    /\ \E t \in Threads :
          /\ threads[t].pc = "respond"
          /\ request' = [op |-> "guess", session_id |-> threads[t].session_id,
                         guess |-> threads[t].guess]
          /\ response' = [status |-> 200,
                          body |-> guess_body(threads[t].ok,
                                              SESSIONS[threads[t].session_id])]
          /\ threads' = [threads EXCEPT ![t] = Idle]
    /\ UNCHANGED <<DISABLE_LLM, FIVE_WORDS, ANAGRAM5_INDEX, SESSIONS, picked>>

NextThreads == guess_receive \/ guess_test \/ guess_append \/ guess_respond

SpecThreads == InitThreads /\ [][NextThreads]_vars

\* ------------------------------------------------------------ properties
\* the guess of a request, normalised as line 302 does
Normal(raw) == strip(lower(raw))

CountOf(c, s) == Cardinality({i \in DOMAIN s : s[i] = c})

IsPermutation(a, b) ==
    /\ Len(a) = Len(b)
    /\ \A c \in Range(a) \cup Range(b) : CountOf(c, a) = CountOf(c, b)

IsAscending(s) == \A i \in 1..(Len(s) - 1) : Ord(s[i]) <= Ord(s[i + 1])

\* the last request was a guess that named a stored session
GuessServed ==
    request.op = "guess" /\ response.status = 200

\* C1: for a stored session and a word w of its targets, the first guess of w
\* returns correct=true and appends w to found (one element longer); a guess of
\* w when it is already in found, whatever was guessed in between, returns
\* correct=true and leaves found as it was.
C1_TargetGuess ==
    [][ (/\ request'.op = "guess"
         /\ request'.session_id \in DOMAIN SESSIONS
         /\ Normal(request'.guess) \in Range(SESSIONS[request'.session_id].targets))
        => LET sid    == request'.session_id
               w      == Normal(request'.guess)
               before == SESSIONS[sid].found
               after  == SESSIONS'[sid].found
           IN  /\ response'.status = 200
               /\ response'.body.correct = TRUE
               /\ response'.body.found = after
               /\ IF w \in Range(before)
                  THEN after = before
                  ELSE after = Append(before, w) /\ Len(after) = Len(before) + 1
      ]_vars

\* C1 witness: a target guessed again after another target was found in between
C1_Witness ==
    /\ GuessServed
    /\ response.body.correct
    /\ Len(SESSIONS[request.session_id].found) = 2
    /\ SESSIONS[request.session_id].found[1] = Normal(request.guess)

\* C2: for a stored session, a guess whose normalised length is not 5 or whose
\* sorted letters differ from the session's letters returns correct=false and
\* leaves the session's found list unchanged.
C2_Rejected ==
    [][ (/\ request'.op = "guess"
         /\ request'.session_id \in DOMAIN SESSIONS
         /\ \/ Len(Normal(request'.guess)) # 5
            \/ sorted(Normal(request'.guess)) # SESSIONS[request'.session_id].letters)
        => /\ response'.status = 200
           /\ response'.body.correct = FALSE
           /\ SESSIONS'[request'.session_id].found = SESSIONS[request'.session_id].found
           /\ response'.body.found = SESSIONS[request'.session_id].found
      ]_vars

\* C2 witness: a guess of the wrong length was refused on a session that has
\* found a word
C2_Witness ==
    /\ GuessServed
    /\ request.guess = tea
    /\ response.body.correct = FALSE
    /\ Len(SESSIONS[request.session_id].found) = 1

\* C3: in every guess response remaining = |targets| - |found| and complete holds
\* exactly when |found| = |targets|; the response that makes found cover all of
\* targets reports complete=true and remaining=0.
C3_Progress ==
    GuessServed =>
        LET gs == SESSIONS[request.session_id]
            b  == response.body
        IN  /\ b.remaining = Len(gs.targets) - Len(gs.found)
            /\ b.complete = (Len(gs.found) = Len(gs.targets))
            /\ Range(gs.found) = Range(gs.targets) => b.complete /\ b.remaining = 0

\* C3 witness: the second of two targets was just found
C3_Witness ==
    /\ GuessServed
    /\ response.body.correct
    /\ Len(SESSIONS[request.session_id].targets) = 2
    /\ Len(response.body.found) = 2
    /\ response.body.found[2] = Normal(request.guess)
    /\ response.body.complete

\* C4: a guess or a state request whose session identifier is unknown, missing
\* or empty gets 400 with error "invalid session", creates no session and
\* changes no session.
C4_InvalidSession ==
    [][ (/\ request'.op \in {"guess", "state"}
         /\ \/ request'.session_id \in {None, ""}
            \/ request'.session_id \notin DOMAIN SESSIONS)
        => /\ response'.status = 400
           /\ response'.body = [error |-> "invalid session"]
           /\ SESSIONS' = SESSIONS
      ]_vars

\* C4 witness: a guess without an identifier was refused while a session with a
\* found word is stored
C4_Witness ==
    /\ request.op = "guess"
    /\ request.session_id = None
    /\ response.status = 400
    /\ \E sid \in DOMAIN SESSIONS : Len(SESSIONS[sid].found) = 1

\* C5: with the collaborator disabled, every new_game returns answer_count >= 1.
C5_DisabledAnswerCount ==
    (DISABLE_LLM /\ request.op = "new_game") => response.body.answer_count >= 1

\* a step that appends a word to the found list of session sid
NovelGuessOn(sid) ==
    /\ request'.op = "guess"
    /\ request'.session_id = sid
    /\ response'.status = 200
    /\ response'.body.correct
    /\ Normal(request'.guess) \notin Range(SESSIONS[sid].found)

\* C6: state changes no session and returns topic, scrambled, letters, found and
\* the number of targets as stored; a step that is not a successful novel guess
\* on a session leaves that session as it was, so two state calls with no such
\* guess in between return the same output.
C6_StateReadOnly ==
    [][ /\ request'.op = "state" =>
            /\ SESSIONS' = SESSIONS
            /\ request'.session_id \in DOMAIN SESSIONS =>
                  LET gs == SESSIONS[request'.session_id]
                  IN  /\ response'.status = 200
                      /\ response'.body = [topic |-> gs.topic,
                                           scrambled |-> gs.scrambled,
                                           letters |-> gs.letters,
                                           found |-> gs.found,
                                           total |-> Len(gs.targets)]
        /\ \A sid \in DOMAIN SESSIONS :
              ~NovelGuessOn(sid) =>
                  sid \in DOMAIN SESSIONS' /\ SESSIONS'[sid] = SESSIONS[sid]
      ]_vars

\* C6 witness: state served for a session that has found one of its two targets
C6_Witness ==
    /\ request.op = "state"
    /\ response.status = 200
    /\ Len(response.body.found) = 1
    /\ response.body.total = 2

\* C7: for the word w new_game settles on, the stored and returned session has
\* letters = the sorted letters of w, scrambled a permutation of those letters,
\* targets = the index bucket of letters, answer_count = the size of the bucket,
\* and found empty.
C7_NewSession ==
    request.op = "new_game" =>
        LET b  == response.body
            w  == picked.seed
        IN  /\ b.session_id \in DOMAIN SESSIONS
            /\ LET gs == SESSIONS[b.session_id]
               IN  /\ IsAscending(gs.letters) /\ IsPermutation(gs.letters, w)
                   /\ IsPermutation(gs.scrambled, gs.letters)
                   /\ sorted(gs.scrambled) = gs.letters
                   /\ gs.targets = (IF gs.letters \in DOMAIN ANAGRAM5_INDEX
                                    THEN ANAGRAM5_INDEX[gs.letters] ELSE <<>>)
                   /\ gs.found = <<>>
                   /\ b.letters = gs.letters
                   /\ b.scrambled = gs.scrambled
                   /\ b.topic = gs.topic
                   /\ b.answer_count = Len(gs.targets)

\* C7 witness: a round for "aster", bucket of 2 words, scrambled out of order
C7_Witness ==
    /\ request.op = "new_game"
    /\ picked.seed = aster
    /\ response.body.letters = <<"a", "e", "r", "s", "t">>
    /\ response.body.scrambled # response.body.letters
    /\ response.body.answer_count = 2

\* C8: every new_game stores and returns a round whatever the collaborator
\* answers at each attempt, and the picker returns a 5-letter word: for every
\* sequence of answers the picker has a result, and the response is 200 for a
\* stored session.
C8_AlwaysARound ==
    /\ LET picks == ask_tinyllama_topic_and_word
           asked == {p.replies : p \in picks}
       IN  /\ \A p \in picks : Len(p.word) = 5 /\ isalpha(p.word)
           /\ \A r1, r2, r3 \in LLMReplies :
                  \E n \in 0..3 : SubSeq(<<r1, r2, r3>>, 1, n) \in asked
    /\ request.op = "new_game" =>
          /\ response.status = 200
          /\ response.body.session_id \in DOMAIN SESSIONS
          /\ Len(picked.word) = 5 /\ isalpha(picked.word)
          /\ Len(picked.seed) = 5
          /\ SESSIONS[response.body.session_id].letters = sorted(picked.seed)

\* C8 witness: the collaborator raised, gave a word that fails validation, then
\* a valid word missing from the index, and a round was returned all the same
C8_Witness ==
    /\ request.op = "new_game"
    /\ Len(picked.replies) = 3
    /\ picked.replies[1].kind = "raise"
    /\ picked.replies[2].word = tea
    /\ picked.replies[3].word = tiger
    /\ picked.word = tiger
    /\ picked.seed = rates
    /\ response.status = 200

\* a reply that parses and passes the check of the word
Accepted(r) ==
    /\ r.kind = "json"
    /\ isalpha(Normal(r.word))
    /\ Len(Normal(r.word)) = 5
    /\ zipf_frequency(Normal(r.word)) >= MIN_ZIPF

\* C9: one pick makes at most 3 requests to the collaborator, stops at the first
\* reply that parses and validates and returns its word, falls back to the local
\* choice after 3 failed attempts, and makes no request when the collaborator is
\* disabled or the vocabulary is empty.
C9_BoundedRetries ==
    request.op = "new_game" =>
        LET r == picked.replies
            n == Len(picked.replies)
        IN  /\ n <= 3
            /\ \A i \in 1..(n - 1) : ~Accepted(r[i])
            /\ (DISABLE_LLM \/ FIVE_WORDS = <<>>) <=> n = 0
            /\ (n > 0 /\ Accepted(r[n])) =>
                  picked.word = Normal(r[n].word) /\ picked.topic = r[n].topic
            /\ (n > 0 /\ ~Accepted(r[n])) =>
                  /\ n = 3
                  /\ picked.word \in Range(FIVE_WORDS)
                  /\ picked.topic \in Range(TOPICS)

\* C9 witness: the second reply was the first valid one and no third was asked
C9_Witness ==
    /\ request.op = "new_game"
    /\ Len(picked.replies) = 2
    /\ picked.replies[1].word = tea
    /\ picked.replies[2].word = Aster
    /\ picked.word = aster

\* C10: with an empty vocabulary new_game does not fail: the picker returns
\* "tiger" with a topic of the fixed list, and a session for the letters of
\* "tiger" is stored and returned.
C10_EmptyVocabulary ==
    FIVE_WORDS = <<>> =>
        /\ ask_tinyllama_topic_and_word # {}
        /\ request.op = "new_game" =>
              /\ picked.word = <<"t", "i", "g", "e", "r">>
              /\ picked.topic \in Range(TOPICS)
              /\ response.status = 200
              /\ response.body.letters = <<"e", "g", "i", "r", "t">>
              /\ response.body.session_id \in DOMAIN SESSIONS
              /\ SESSIONS[response.body.session_id].letters = <<"e", "g", "i", "r", "t">>

\* C10 witness: a round was created with an empty vocabulary
C10_Witness ==
    /\ FIVE_WORDS = <<>>
    /\ request.op = "new_game"
    /\ picked.seed = tiger
    /\ response.status = 200

\* ------------------------------------------------ case and white space
UpperChar(c) ==
    CASE c = "a" -> "A"
      [] c = "e" -> "E"
      [] c = "r" -> "R"
      [] c = "s" -> "S"
      [] c = "t" -> "T"
      [] OTHER -> c

upper(s) == [i \in 1..Len(s) |-> UpperChar(s[i])]

capitalize(s) == <<UpperChar(s[1])>> \o Tail(s)

Padding == {<<>>, <<" ">>}

\* a word and the ways of writing it in another case, with white space around it
Variants(w) ==
    {p1 \o c \o p2 : p1 \in Padding, p2 \in Padding,
                     c \in {w, upper(w), capitalize(w)}}

\* a target, an anagram that is no target, a short word
VariantBases == {rates, stare, tea}

\* C11: the handling of a guess does not depend on its case or on the white
\* space around it: in every session state, a raw guess and each of its
\* case/white-space variants give the same correct flag and the same found
\* list, and a served guess written as such a variant is answered as the
\* plain word is ('rates' then 'RATES ': correct, and rates in found once).
C11_CaseAndSpace ==
    /\ \A w \in VariantBases :
          LET read == {guess_text(v) : v \in Variants(w)}
          IN  \A sid \in DOMAIN SESSIONS : \A g \in read :
                 LET gs == SESSIONS[sid]
                 IN  /\ IsCorrect(g, gs) = IsCorrect(guess_text(w), gs)
                     /\ AfterGuess(g, gs).found = AfterGuess(guess_text(w), gs).found
    /\ \A w \in VariantBases :
          (GuessServed /\ request.guess \in Variants(w))
             => LET gs == SESSIONS[request.session_id]
                IN  /\ response.body.correct = (w \in Range(gs.targets))
                    /\ response.body.correct => CountOf(w, gs.found) = 1
                    /\ response.body.found = gs.found

\* C11 witness: 'RATES ' answered correct with rates in found once
C11_Witness ==
    /\ GuessServed
    /\ request.guess = RATES_
    /\ response.body.correct = TRUE
    /\ response.body.found = <<rates>>

\* ------------------------------------------------------------ the index
\* a word of the source that the index keeps
Qualifies(w) ==
    /\ isalpha(w)
    /\ Len(w) = SEED_LEN
    /\ zipf_frequency(lower(w)) >= MIN_ZIPF

\* C12: in the index built from any word source, every word has length 5 and
\* a frequency of at least the threshold, every key is the sorted letters of
\* each word of its bucket, every bucket is sorted and has no word twice, and
\* every qualifying word of the source is in the bucket of its signature.
C12_Index ==
    /\ \A k \in DOMAIN ANAGRAM5_INDEX :
          LET b == ANAGRAM5_INDEX[k]
          IN  /\ \A i \in DOMAIN b :
                    /\ Len(b[i]) = 5
                    /\ zipf_frequency(b[i]) >= MIN_ZIPF
                    /\ IsPermutation(b[i], k)
              /\ IsAscending(k)
              /\ \A i, j \in DOMAIN b : i < j => (b[i] # b[j] /\ StrLess(b[i], b[j]))
    /\ \E n \in 0..Len(RankedWords) :
          /\ \A i \in 1..n :
                Qualifies(RankedWords[i])
                   => LET w == lower(RankedWords[i])
                          k == sorted(w)
                      IN  /\ k \in DOMAIN ANAGRAM5_INDEX
                          /\ w \in Range(ANAGRAM5_INDEX[k])
                          /\ w \in Range(FIVE_WORDS)
          /\ \A k \in DOMAIN ANAGRAM5_INDEX : \A w \in Range(ANAGRAM5_INDEX[k]) :
                \E i \in 1..n : Qualifies(RankedWords[i]) /\ lower(RankedWords[i]) = w

\* C12 witness: an index of two buckets, one of three words, has served a round
C12_Witness ==
    /\ Cardinality(DOMAIN ANAGRAM5_INDEX) = 2
    /\ \E k \in DOMAIN ANAGRAM5_INDEX : Len(ANAGRAM5_INDEX[k]) = 3
    /\ request.op = "new_game"

\* C13: with the requests handled one at a time, in every reachable state the
\* found list of every session holds only targets of the session, holds no
\* word twice, and is no longer than the targets.
C13_FoundWithinTargets ==
    \A sid \in DOMAIN SESSIONS :
       LET gs == SESSIONS[sid]
       IN  /\ Range(gs.found) \subseteq Range(gs.targets)
           /\ \A i, j \in DOMAIN gs.found : i # j => gs.found[i] # gs.found[j]
           /\ Len(gs.found) <= Len(gs.targets)

\* C13 witness: a session all of whose targets were found, one guessed again
C13_Witness ==
    /\ GuessServed
    /\ request.session_id \in DOMAIN SESSIONS
    /\ Len(SESSIONS[request.session_id].found) = 2
    /\ Len(SESSIONS[request.session_id].targets) = 2
    /\ Cardinality(DOMAIN SESSIONS) = 2

IsPrefix(a, b) == Len(a) <= Len(b) /\ SubSeq(b, 1, Len(a)) = a

\* C14: a guess changes at most the found list of the session it names: the
\* topic, letters, scrambled and targets of that session stay as they were,
\* every other session stays as it was in all five fields, and the anagram
\* index is unchanged, whether or not the guess was correct.
C14_GuessFrame ==
    [][ request'.op = "guess"
        => /\ DOMAIN SESSIONS' = DOMAIN SESSIONS
           /\ \A sid \in DOMAIN SESSIONS :
                 /\ SESSIONS'[sid].topic = SESSIONS[sid].topic
                 /\ SESSIONS'[sid].letters = SESSIONS[sid].letters
                 /\ SESSIONS'[sid].scrambled = SESSIONS[sid].scrambled
                 /\ SESSIONS'[sid].targets = SESSIONS[sid].targets
                 /\ sid # request'.session_id => SESSIONS'[sid] = SESSIONS[sid]
           /\ ANAGRAM5_INDEX' = ANAGRAM5_INDEX
           /\ FIVE_WORDS' = FIVE_WORDS
      ]_vars

\* C14 witness: a correct guess served while another session has found words
C14_Witness ==
    /\ GuessServed
    /\ response.body.correct = TRUE
    /\ Len(response.body.found) = 1
    /\ \E other \in DOMAIN SESSIONS \ {request.session_id} :
          Len(SESSIONS[other].found) = 2

\* C15: each new_game adds exactly one session, under an identifier that no
\* stored session has, and leaves every stored session as it was; no request
\* removes a session, so the set of identifiers only grows.
C15_SessionsGrow ==
    [][ /\ DOMAIN SESSIONS \subseteq DOMAIN SESSIONS'
        /\ request'.op = "new_game"
             => /\ response'.body.session_id \notin DOMAIN SESSIONS
                /\ DOMAIN SESSIONS' = DOMAIN SESSIONS \cup {response'.body.session_id}
                /\ Cardinality(DOMAIN SESSIONS') = Cardinality(DOMAIN SESSIONS) + 1
                /\ \A sid \in DOMAIN SESSIONS : SESSIONS'[sid] = SESSIONS[sid]
      ]_vars

\* C15 witness: a second session created while the first has a found word
C15_Witness ==
    /\ request.op = "new_game"
    /\ Cardinality(DOMAIN SESSIONS) = 2
    /\ \E sid \in DOMAIN SESSIONS \ {response.body.session_id} :
          SESSIONS[sid].found # <<>>

\* C16: found only grows, by appending at the end: the found list of a session
\* is a prefix of its found list in the next state; and a guess on a session
\* whose found list is as long as its targets reports complete=true and
\* remaining=0.
C16_FoundGrows ==
    [][ \A sid \in DOMAIN SESSIONS :
           /\ sid \in DOMAIN SESSIONS'
           /\ IsPrefix(SESSIONS[sid].found, SESSIONS'[sid].found)
           /\ (/\ Len(SESSIONS[sid].found) = Len(SESSIONS[sid].targets)
               /\ request'.op = "guess"
               /\ request'.session_id = sid)
                 => /\ response'.body.complete = TRUE
                    /\ response'.body.remaining = 0
      ]_vars

\* C16 witness: a wrong guess on a completed session is answered complete
C16_Witness ==
    /\ GuessServed
    /\ response.body.correct = FALSE
    /\ response.body.complete = TRUE
    /\ response.body.remaining = 0
    /\ Len(response.body.found) = 2

\* C18: the signature test of line 307 is redundant: in every reachable state
\* the sorted letters of every target of a session are the letters of the
\* session, so a handler that tests only the length and the membership in
\* targets gives the same correct flag and the same found list for every
\* session state and guess.
C18_SignatureRedundant ==
    \A sid \in DOMAIN SESSIONS :
       LET gs == SESSIONS[sid]
       IN  /\ \A w \in Range(gs.targets) :
                 IsPermutation(w, gs.letters) /\ IsAscending(gs.letters)
           /\ \A raw \in GuessInputs :
                 LET g   == guess_text(raw)
                     ok2 == Len(g) = SEED_LEN /\ g \in Range(gs.targets)
                 IN  /\ IsCorrect(g, gs) = ok2
                     /\ AfterGuess(g, gs).found
                           = IF ok2 /\ g \notin Range(gs.found)
                             THEN Append(gs.found, g)
                             ELSE gs.found

\* C18 witness: an anagram of the letters that is no target was guessed
C18_Witness ==
    /\ GuessServed
    /\ request.guess = stare
    /\ IsPermutation(stare, SESSIONS[request.session_id].letters)
    /\ response.body.correct = FALSE
    /\ SESSIONS[request.session_id].targets # <<>>

\* C19: every session stored by new_game, on every path of the picker, has a
\* non-empty targets list, so no session is reported complete while its found
\* list is empty.
C19_NonEmptyTargets ==
    /\ \A sid \in DOMAIN SESSIONS : SESSIONS[sid].targets # <<>>
    /\ GuessServed => ~(response.body.complete /\ response.body.found = <<>>)

\* ------------------------------------------- guesses served at the same time
\* the word thread t is serving
GuessOf(t) == guess_text(threads[t].guess)

\* C17 as stated: the write to found is last-write-wins, no atomic append: a
\* thread that appends leaves found as the list it read at its test plus its
\* own word, so that a word another thread appended in between is lost.
C17_LastWriteWins ==
    [][ \A t \in Threads :
           (threads[t].pc = "append" /\ threads'[t].pc = "respond")
              => SESSIONS'[threads[t].session_id].found
                    = Append(threads[t].seen, GuessOf(t))
      ]_vars

\* C17: with guess requests of one session interleaved step by step, no update
\* to found is lost: the append extends the shared list in place, so every
\* correctly guessed word is in found once its request is past line 309, and
\* every response with correct=true lists the guessed word in found.
C17_NoLostUpdate ==
    /\ \A t \in Threads :
          (threads[t].pc = "respond" /\ threads[t].ok)
             => GuessOf(t) \in Range(SESSIONS[threads[t].session_id].found)
    /\ (GuessServed /\ response.body.correct)
          => /\ Normal(request.guess) \in Range(response.body.found)
             /\ Normal(request.guess) \in Range(SESSIONS[request.session_id].found)

\* C17 witness: a thread read an empty found list, another thread appended
\* aster, then the first appended rates: both words are in found
C17_Witness ==
    \E t \in Threads :
       /\ threads[t].pc = "respond"
       /\ threads[t].ok
       /\ threads[t].seen = <<>>
       /\ GuessOf(t) = rates
       /\ SESSIONS[threads[t].session_id].found = <<aster, rates>>

\* C20: with guess requests of one session interleaved step by step (the
\* membership test, the append, the building of the response), found never
\* holds a word twice and no response reports a negative remaining or a found
\* list longer than the targets.
C20_NoDuplicateInterleaved ==
    /\ \A sid \in DOMAIN SESSIONS :
          LET gs == SESSIONS[sid]
          IN  /\ \A i, j \in DOMAIN gs.found : i # j => gs.found[i] # gs.found[j]
              /\ Len(gs.found) <= Len(gs.targets)
    /\ GuessServed
          => /\ response.body.remaining >= 0
             /\ Len(response.body.found)
                   <= Len(SESSIONS[request.session_id].targets)

====
